---------------------------- MODULE Spec2Model ----------------------------
(***************************************************************************)
(* Model of larpa.py: an OSC listener (`python larpa.py start`) whose      *)
(* /scan and /scan_and_print callbacks run external device commands under  *)
(* the module-global lock MUTEX, and whose /echo callback prints its       *)
(* argument.  ThreadingOSCUDPServer runs every received datagram on a      *)
(* thread of its own; the model gives each datagram the next thread id.    *)
(*                                                                         *)
(* Every message carries exactly one argument, which is what the           *)
(* two-parameter callbacks (address, msg) of larpa.py accept.              *)
(***************************************************************************)
EXTENDS Naturals, Sequences, FiniteSets

\* Number of datagrams the listener receives in a run (one thread each).
MaxDatagrams == 2

Threads == 1..MaxDatagrams

\* Addresses a datagram may carry: the three routes of start_handler and
\* one address no route is mapped to.
Addresses == {"/echo", "/scan", "/scan_and_print", "/other"}

\* Message arguments, as sequences of characters.
Msgs == { <<"H", "i">>, << >> }

\* The datagrams the listener may receive.  Only echo_callback reads its
\* argument (the other callbacks name it _msg and never use it), so the
\* argument varies for /echo alone.
Datagrams ==
  {[address |-> "/echo", msg |-> m] : m \in Msgs}
    \cup {[address |-> a, msg |-> << >>] : a \in Addresses \ {"/echo"}}

\* How a device command ends: exit status 0, a non-zero exit status (which
\* subprocess.run without check=True returns normally), or subprocess.run
\* raising (OSError when the shell cannot be spawned).
Outcomes == {"ok", "failed", "raised"}

\* Number of datagrams the listener receives in a run in which the one-shot
\* command process runs beside it.
MaxCliDatagrams == 1

\* The one-shot subcommands of the command line besides `start`.
Subcommands == {"echo", "scan", "scan_and_print"}

VARIABLES
  MUTEX,      \* TRUE iff the global threading.Lock is locked
  received,   \* number of datagrams the listener has received
  request,    \* request[t]: the address and argument of thread t's datagram
  runner,     \* runner[t]: the thread that executes request t
  pc,         \* pc[t]: where thread t stands in its callback
  console,    \* the lines printed to the server console, in order
  calls,      \* calls[t]: how often thread t has made each call
  result,     \* result[t]: how thread t's device commands and callback ended
  observed,   \* observed[t]: what thread t's MUTEX.locked() returned, and when
  cli,        \* the one-shot command process (`python larpa.py <subcommand>`)
  network     \* the encoded datagrams sent by the client and not yet received

\* The state outside the listener process.
cliVars == <<cli, network>>

vars == <<MUTEX, received, request, runner, pc, console, calls, result, observed,
          cli, network>>

NoCalls ==
  [execute_scan |-> 0, execute_print |-> 0, ignored |-> 0, echo |-> 0,
   handler |-> 0, acquire |-> 0, release |-> 0]

NoResult == [scan |-> "none", print |-> "none", raised |-> FALSE]

NoObservation == [gate |-> "unchecked", releases |-> 0]

\* The command process before argument parsing: its own module-global
\* MUTEX = Lock() is unlocked, nothing is printed, nothing is called.
NoCli ==
  [pc |-> "idle", action |-> "none", msg |-> << >>, MUTEX |-> FALSE,
   console |-> << >>,
   calls |-> [execute_scan |-> 0, execute_print |-> 0, send_message |-> 0,
              locked |-> 0, acquire |-> 0, release |-> 0],
   result |-> NoResult,
   thread |-> 0]

\* How often the threads of S have made the call named `what`.
RECURSIVE Total(_, _)
Total(what, S) ==
  IF S = {} THEN 0
  ELSE LET x == CHOOSE y \in S : TRUE IN calls[x][what] + Total(what, S \ {x})

\* Number of times the lock has been released so far, by any thread.
Releases == Total("release", Threads)

\* "> {}".format( text )
Line(text) == <<">", " ">> \o text

SCANNING == Line(<<"Scanning...">>)
PRINTING == Line(<<"Printing...">>)
SCAN_IGNORED ==
  Line(<<"Scan ignored, a process lock has already been acquired...">>)
SCAN_AND_PRINT_IGNORED ==
  Line(<<"Scan and print ignored, a process lock has already been acquired...">>)

\* Mutant of Routes: echo_callback is also set as the default handler, so
\* every other address is routed to it.
RoutesWithDefault ==
  [a \in Addresses |->
     CASE a = "/scan" -> "check"
       [] a = "/scan_and_print" -> "check"
       [] OTHER -> "echo"]

\* dispatcher.map(...) of start_handler: address -> callback entry point.
Routes ==
  [a \in {"/echo", "/scan", "/scan_and_print"} |->
     CASE a = "/echo" -> "echo"
       [] a = "/scan" -> "check"
       [] a = "/scan_and_print" -> "check"]

Init ==
  /\ MUTEX = FALSE
  /\ received = 0
  /\ request = [t \in Threads |-> [address |-> "none", msg |-> << >>]]
  /\ runner = [t \in Threads |-> "none"]
  /\ pc = [t \in Threads |-> "unborn"]
  /\ console = << >>
  /\ calls = [t \in Threads |-> NoCalls]
  /\ result = [t \in Threads |-> NoResult]
  /\ observed = [t \in Threads |-> NoObservation]
  /\ cli = NoCli
  /\ network = {}

\* The accept loop can take the next datagram unless it is itself executing
\* a request.
AcceptLoopFree ==
  \A t \in Threads : runner[t] = "listener" => pc[t] \in {"unborn", "done"}

\* Mutant of process_request: a server without the threading mix-in, which
\* executes the request on the accept loop itself.
process_request_inline(t) ==
  runner' = [runner EXCEPT ![t] = "listener"]

\* ThreadingOSCUDPServer (ThreadingMixIn): the request is handed to a new
\* thread and the accept loop goes on.
process_request(t) ==
  runner' = [runner EXCEPT ![t] = "worker"]

\* The accept loop takes datagram d and hands it on.
receive(d) ==
  /\ received < MaxDatagrams
  /\ AcceptLoopFree
  /\ received' = received + 1
  /\ request' = [request EXCEPT ![received + 1] = d]
  /\ pc' = [pc EXCEPT ![received + 1] = "dispatch"]
  /\ process_request(received + 1)
  /\ UNCHANGED <<MUTEX, console, calls, result, observed>>

\* server.serve_forever(): receive one datagram of some OSC peer (TouchOSC).
serve_forever(d) ==
  /\ receive(d)
  /\ UNCHANGED cliVars

\* Dispatcher: call the callback mapped to the address; an address that
\* nothing is mapped to has no callback, and the request ends.
dispatch(t) ==
  /\ pc[t] = "dispatch"
  /\ IF request[t].address \in DOMAIN Routes
       THEN /\ pc' = [pc EXCEPT ![t] = Routes[request[t].address]]
            /\ calls' = [calls EXCEPT ![t].handler = @ + 1]
       ELSE /\ pc' = [pc EXCEPT ![t] = "done"]
            /\ UNCHANGED calls
  /\ UNCHANGED <<cliVars, MUTEX, received, request, runner, console, result, observed>>

\* Mutant of echo_callback: the address is printed in place of the message.
echo_callback_prints_address(t) ==
  /\ pc[t] = "echo"
  /\ console' = Append(console, Line(<<request[t].address>>))
  /\ calls' = [calls EXCEPT ![t].echo = @ + 1]
  /\ pc' = [pc EXCEPT ![t] = "done"]
  /\ UNCHANGED <<cliVars, MUTEX, received, request, runner, result, observed>>

\* Mutant of echo_callback: the print is wrapped in `with MUTEX:` like the
\* device callbacks' bodies.
echo_callback_locked(t) ==
  /\ pc[t] = "echo"
  /\ ~MUTEX
  /\ console' = Append(console, Line(request[t].msg))
  /\ calls' = [calls EXCEPT ![t].echo = @ + 1]
  /\ pc' = [pc EXCEPT ![t] = "done"]
  /\ UNCHANGED <<cliVars, MUTEX, received, request, runner, result, observed>>

\* echo_callback: print( "> {}".format( msg ) )
echo_callback(t) ==
  /\ pc[t] = "echo"
  /\ console' = Append(console, Line(request[t].msg))
  /\ calls' = [calls EXCEPT ![t].echo = @ + 1]
  /\ pc' = [pc EXCEPT ![t] = "done"]
  /\ UNCHANGED <<cliVars, MUTEX, received, request, runner, result, observed>>

\* Mutant of locked_check: a callback that finds the lock held queues up at
\* the lock instead of giving up.
locked_check_queued(t) ==
  /\ pc[t] = "check"
  /\ observed' = [observed EXCEPT ![t] =
                    [gate |-> IF MUTEX THEN "held" ELSE "free",
                     releases |-> Releases]]
  /\ pc' = [pc EXCEPT ![t] = "acquire"]
  /\ UNCHANGED <<cliVars, MUTEX, received, request, runner, console, calls, result>>

\* `if MUTEX.locked():` of scan_callback and scan_and_print_callback.
locked_check(t) ==
  /\ pc[t] = "check"
  /\ observed' = [observed EXCEPT ![t] =
                    [gate |-> IF MUTEX THEN "held" ELSE "free",
                     releases |-> Releases]]
  /\ pc' = [pc EXCEPT ![t] = IF MUTEX THEN "ignored" ELSE "acquire"]
  /\ UNCHANGED <<cliVars, MUTEX, received, request, runner, console, calls, result>>

\* Mutant of print_ignored: the locked branch also calls MUTEX.release().
print_ignored_releases(t) ==
  /\ pc[t] = "ignored"
  /\ console' = Append(console,
                  IF request[t].address = "/scan"
                    THEN SCAN_IGNORED ELSE SCAN_AND_PRINT_IGNORED)
  /\ MUTEX' = FALSE
  /\ calls' = [calls EXCEPT ![t].ignored = @ + 1, ![t].release = @ + 1]
  /\ pc' = [pc EXCEPT ![t] = "done"]
  /\ UNCHANGED <<cliVars, received, request, runner, result, observed>>

\* Mutant of print_ignored: the else is missing, so after the notice the
\* callback goes on to the with block.
print_ignored_falls_through(t) ==
  /\ pc[t] = "ignored"
  /\ console' = Append(console,
                  IF request[t].address = "/scan"
                    THEN SCAN_IGNORED ELSE SCAN_AND_PRINT_IGNORED)
  /\ calls' = [calls EXCEPT ![t].ignored = @ + 1]
  /\ pc' = [pc EXCEPT ![t] = "acquire"]
  /\ UNCHANGED <<cliVars, MUTEX, received, request, runner, result, observed>>

\* The print of the locked branch.
print_ignored(t) ==
  /\ pc[t] = "ignored"
  /\ console' = Append(console,
                  IF request[t].address = "/scan"
                    THEN SCAN_IGNORED ELSE SCAN_AND_PRINT_IGNORED)
  /\ calls' = [calls EXCEPT ![t].ignored = @ + 1]
  /\ pc' = [pc EXCEPT ![t] = "done"]
  /\ UNCHANGED <<cliVars, MUTEX, received, request, runner, result, observed>>

\* Mutant of mutex_enter: the block is entered without waiting for the lock.
mutex_enter_unguarded(t) ==
  /\ pc[t] = "acquire"
  /\ MUTEX' = TRUE
  /\ calls' = [calls EXCEPT ![t].acquire = @ + 1]
  /\ pc' = [pc EXCEPT ![t] = "scan"]
  /\ UNCHANGED <<cliVars, received, request, runner, console, result, observed>>

\* `with MUTEX:` on entry: Lock.acquire(), which blocks while the lock is
\* locked.
mutex_enter(t) ==
  /\ pc[t] = "acquire"
  /\ ~MUTEX
  /\ MUTEX' = TRUE
  /\ calls' = [calls EXCEPT ![t].acquire = @ + 1]
  /\ pc' = [pc EXCEPT ![t] = "scan"]
  /\ UNCHANGED <<cliVars, received, request, runner, console, result, observed>>

\* Mutant of execute_scan_start: execute_scan itself takes the (non-reentrant)
\* MUTEX before it starts, which its caller already holds.
execute_scan_start_relocks(t) ==
  /\ pc[t] = "scan"
  /\ ~MUTEX
  /\ console' = Append(console, SCANNING)
  /\ calls' = [calls EXCEPT ![t].execute_scan = @ + 1]
  /\ pc' = [pc EXCEPT ![t] = "scanning"]
  /\ UNCHANGED <<cliVars, MUTEX, received, request, runner, result, observed>>

\* execute_scan, first half: print the notice and spawn scanimage.
execute_scan_start(t) ==
  /\ pc[t] = "scan"
  /\ console' = Append(console, SCANNING)
  /\ calls' = [calls EXCEPT ![t].execute_scan = @ + 1]
  /\ pc' = [pc EXCEPT ![t] = "scanning"]
  /\ UNCHANGED <<cliVars, MUTEX, received, request, runner, result, observed>>

\* Mutant of after_scan: the exit status of the scan command is checked and
\* a failed scan leaves the block without printing.
after_scan_checked(t, o) ==
  IF request[t].address = "/scan_and_print" /\ o = "ok"
    THEN "print" ELSE "exit"

\* Where the callback goes once execute_scan is over: scan_callback leaves
\* the with block; scan_and_print_callback calls execute_print unless
\* execute_scan raised.
after_scan(t, o) ==
  IF request[t].address = "/scan_and_print" /\ o # "raised"
    THEN "print" ELSE "exit"

\* Mutant of execute_scan_end: the with block covers execute_scan alone, so
\* the lock is released when the scan is over and the print runs outside it.
execute_scan_end_releases(t, o) ==
  /\ pc[t] = "scanning"
  /\ result' = [result EXCEPT ![t].scan = o,
                              ![t].raised = (o = "raised")]
  /\ pc' = [pc EXCEPT ![t] = after_scan(t, o)]
  /\ MUTEX' = FALSE
  /\ calls' = [calls EXCEPT ![t].release = @ + 1]
  /\ UNCHANGED <<cliVars, received, request, runner, console, observed>>

\* execute_scan, second half: subprocess.run returns or raises.
execute_scan_end(t, o) ==
  /\ pc[t] = "scanning"
  /\ result' = [result EXCEPT ![t].scan = o,
                              ![t].raised = (o = "raised")]
  /\ pc' = [pc EXCEPT ![t] = after_scan(t, o)]
  /\ UNCHANGED <<cliVars, MUTEX, received, request, runner, console, calls, observed>>

\* execute_print, first half: print the notice and spawn lp.
execute_print_start(t) ==
  /\ pc[t] = "print"
  /\ console' = Append(console, PRINTING)
  /\ calls' = [calls EXCEPT ![t].execute_print = @ + 1]
  /\ pc' = [pc EXCEPT ![t] = "printing"]
  /\ UNCHANGED <<cliVars, MUTEX, received, request, runner, result, observed>>

\* execute_print, second half: subprocess.run returns or raises.
execute_print_end(t, o) ==
  /\ pc[t] = "printing"
  /\ result' = [result EXCEPT ![t].print = o,
                              ![t].raised = (o = "raised")]
  /\ pc' = [pc EXCEPT ![t] = "exit"]
  /\ UNCHANGED <<cliVars, MUTEX, received, request, runner, console, calls, observed>>

\* Mutant of mutex_exit: acquire and release are paired by hand around the
\* device calls, so a call that raises skips the release.
mutex_exit_unless_raised(t) ==
  /\ pc[t] = "exit"
  /\ MUTEX' = IF result[t].raised THEN MUTEX ELSE FALSE
  /\ calls' = [calls EXCEPT ![t].release = IF result[t].raised THEN @ ELSE @ + 1]
  /\ pc' = [pc EXCEPT ![t] = "done"]
  /\ UNCHANGED <<cliVars, received, request, runner, console, result, observed>>

\* Mutant of mutex_exit: the block ends without releasing the lock.
mutex_exit_keeps_lock(t) ==
  /\ pc[t] = "exit"
  /\ MUTEX' = MUTEX
  /\ calls' = [calls EXCEPT ![t].release = @ + 1]
  /\ pc' = [pc EXCEPT ![t] = "done"]
  /\ UNCHANGED <<cliVars, received, request, runner, console, result, observed>>

\* `with MUTEX:` on exit: Lock.release(), on normal and exceptional exit.
mutex_exit(t) ==
  /\ pc[t] = "exit"
  /\ MUTEX' = FALSE
  /\ calls' = [calls EXCEPT ![t].release = @ + 1]
  /\ pc' = [pc EXCEPT ![t] = "done"]
  /\ UNCHANGED <<cliVars, received, request, runner, console, result, observed>>

Next ==
  \/ \E d \in Datagrams : serve_forever(d)
  \/ \E t \in Threads : dispatch(t)
  \/ \E t \in Threads : echo_callback(t)
  \/ \E t \in Threads : locked_check(t)
  \/ \E t \in Threads : print_ignored(t)
  \/ \E t \in Threads : mutex_enter(t)
  \/ \E t \in Threads : execute_scan_start(t)
  \/ \E t \in Threads, o \in Outcomes : execute_scan_end(t, o)
  \/ \E t \in Threads : execute_print_start(t)
  \/ \E t \in Threads, o \in Outcomes : execute_print_end(t, o)
  \/ \E t \in Threads : mutex_exit(t)

Spec == Init /\ [][Next]_vars

\* The threads inside the `with MUTEX:` block of either callback.
InGuardedBlock(t) == pc[t] \in {"scan", "scanning", "print", "printing", "exit"}

\* The threads executing a device operation step sequence.
InDeviceOperation(t) == pc[t] \in {"scan", "scanning", "print", "printing"}

\* The threads inside scan_callback or scan_and_print_callback.
InTriggerCallback(t) ==
  pc[t] \in {"check", "ignored", "acquire"} \/ InGuardedBlock(t)

IsTrigger(t) == request[t].address \in {"/scan", "/scan_and_print"}

-----------------------------------------------------------------------------
(***************************************************************************)
(* The one-shot command process: `python larpa.py echo|scan|scan_and_print`*)
(* run in a second console while the listener serves.  It is a process of  *)
(* its own, so the module-global MUTEX it creates on import (cli.MUTEX) is  *)
(* not the listener's.                                                     *)
(***************************************************************************)

\* An OSC string on the wire: the characters, then one to four NUL bytes up
\* to a multiple of four.
RECURSIVE Nuls(_)
Nuls(n) == IF n = 0 THEN << >> ELSE <<"NUL">> \o Nuls(n - 1)

OscString(text) == text \o Nuls(4 - (Len(text) % 4))

\* The characters of an OSC string read off the wire: those before the
\* first NUL.
RECURSIVE ParseOscString(_)
ParseOscString(bytes) ==
  IF bytes = << >> \/ Head(bytes) = "NUL" THEN << >>
  ELSE <<Head(bytes)>> \o ParseOscString(Tail(bytes))

\* client.send_message( address, msg ): one message with one string argument.
Encode(address, text) ==
  [address |-> address, typetags |-> OscString(<<",", "s">>),
   arg |-> OscString(text)]

\* The listener's decoding of a received message.
Decode(wire) == [address |-> wire.address, msg |-> ParseOscString(wire.arg)]

\* args = parser.parse_args(); args.func( args )
cli_main(a, m) ==
  /\ cli.pc = "idle"
  /\ cli' = [cli EXCEPT !.action = a,
                        !.msg = IF a = "echo" THEN m ELSE << >>,
                        !.pc = IF a = "echo" THEN "send" ELSE "scan"]
  /\ UNCHANGED <<MUTEX, received, request, runner, pc, console, calls, result,
                 observed, network>>

\* echo_handler: client.send_message( "/echo", args.msg )
echo_handler ==
  /\ cli.pc = "send"
  /\ network' = network \cup {Encode("/echo", cli.msg)}
  /\ cli' = [cli EXCEPT !.calls.send_message = @ + 1, !.pc = "exit"]
  /\ UNCHANGED <<MUTEX, received, request, runner, pc, console, calls, result,
                 observed>>

\* UDP gives no delivery guarantee: a datagram in flight may be lost.
udp_lose(wire) ==
  /\ wire \in network
  /\ network' = network \ {wire}
  /\ UNCHANGED <<MUTEX, received, request, runner, pc, console, calls, result,
                 observed, cli>>

\* server.serve_forever(): receive the datagram the client sent.
serve_forever_sent(wire) ==
  /\ wire \in network
  /\ receive(Decode(wire))
  /\ network' = network \ {wire}
  /\ cli' = [cli EXCEPT !.thread = received + 1]

\* Mutant of handler_execute_scan_start: the handler reaches execute_scan
\* through the callback's lock discipline, testing and taking MUTEX first.
handler_execute_scan_start_locked ==
  /\ cli.pc = "scan"
  /\ ~cli.MUTEX
  /\ cli' = [cli EXCEPT !.console = Append(@, SCANNING),
                        !.calls.execute_scan = @ + 1,
                        !.calls.locked = @ + 1,
                        !.calls.acquire = @ + 1,
                        !.MUTEX = TRUE,
                        !.pc = "scanning"]
  /\ UNCHANGED <<MUTEX, received, request, runner, pc, console, calls, result,
                 observed, network>>

\* scan_handler / scan_and_print_handler: execute_scan(), first half.
handler_execute_scan_start ==
  /\ cli.pc = "scan"
  /\ cli' = [cli EXCEPT !.console = Append(@, SCANNING),
                        !.calls.execute_scan = @ + 1,
                        !.pc = "scanning"]
  /\ UNCHANGED <<MUTEX, received, request, runner, pc, console, calls, result,
                 observed, network>>

\* Where the handler goes once execute_scan is over: scan_handler returns;
\* scan_and_print_handler calls execute_print unless execute_scan raised.
after_scan_handler(o) ==
  IF cli.action = "scan_and_print" /\ o # "raised" THEN "print" ELSE "exit"

\* execute_scan(), second half: subprocess.run returns or raises.
handler_execute_scan_end(o) ==
  /\ cli.pc = "scanning"
  /\ cli' = [cli EXCEPT !.result.scan = o,
                        !.result.raised = (o = "raised"),
                        !.pc = after_scan_handler(o)]
  /\ UNCHANGED <<MUTEX, received, request, runner, pc, console, calls, result,
                 observed, network>>

\* scan_and_print_handler: execute_print(), first half.
handler_execute_print_start ==
  /\ cli.pc = "print"
  /\ cli' = [cli EXCEPT !.console = Append(@, PRINTING),
                        !.calls.execute_print = @ + 1,
                        !.pc = "printing"]
  /\ UNCHANGED <<MUTEX, received, request, runner, pc, console, calls, result,
                 observed, network>>

\* execute_print(), second half: subprocess.run returns or raises.
handler_execute_print_end(o) ==
  /\ cli.pc = "printing"
  /\ cli' = [cli EXCEPT !.result.print = o,
                        !.result.raised = (o = "raised"),
                        !.pc = "exit"]
  /\ UNCHANGED <<MUTEX, received, request, runner, pc, console, calls, result,
                 observed, network>>

\* A step of the listener process while the command process runs beside it.
ListenerStep == Next /\ received' <= MaxCliDatagrams

CliNext ==
  \/ ListenerStep
  \/ \E a \in Subcommands, m \in Msgs : cli_main(a, m)
  \/ echo_handler
  \/ \E wire \in network : udp_lose(wire)
  \/ \E wire \in network : received < MaxCliDatagrams /\ serve_forever_sent(wire)
  \/ handler_execute_scan_start
  \/ \E o \in Outcomes : handler_execute_scan_end(o)
  \/ handler_execute_print_start
  \/ \E o \in Outcomes : handler_execute_print_end(o)

\* The listener and one command process side by side.
CliSpec == Init /\ [][CliNext]_vars

-----------------------------------------------------------------------------
\* C1: in every reachable state at most one thread is executing a device
\* operation step sequence (execute_scan, or execute_scan followed by
\* execute_print), however many /scan and /scan_and_print callbacks run
\* concurrently; the lock is locked whenever one is.
C1_MutualExclusion ==
  /\ Cardinality({t \in Threads : InDeviceOperation(t)}) <= 1
  /\ \A t \in Threads : InDeviceOperation(t) => MUTEX

\* Two callbacks race: one is scanning, the other has passed its check and
\* stands at the lock.
C1_Witness ==
  \E t, u \in Threads :
    /\ t # u
    /\ pc[t] = "scanning"
    /\ pc[u] = "acquire"

-----------------------------------------------------------------------------
\* The /scan threads of a burst: those that made their MUTEX.locked() check
\* before the lock was released for the first time.
ScanBurst ==
  {t \in Threads : /\ request[t].address = "/scan"
                   /\ observed[t].gate # "unchecked"
                   /\ observed[t].releases = 0}

\* C2: of N >= 2 /scan triggers whose callbacks start together while the
\* lock is free (no /scan_and_print is around, and each makes its check
\* before the lock is first released), once all have finished exactly one
\* has invoked execute_scan and each of the other N-1 has printed the
\* 'ignored' notice and has not invoked execute_scan.
C2_ExactlyOneScanPerBurst ==
  ( /\ \A t \in Threads : pc[t] # "unborn" => request[t].address = "/scan"
    /\ Cardinality(ScanBurst) >= 2
    /\ \A t \in ScanBurst : pc[t] = "done" )
  => /\ Total("execute_scan", ScanBurst) = 1
     /\ Total("ignored", ScanBurst) = Cardinality(ScanBurst) - 1
     /\ \A t \in ScanBurst : calls[t].ignored = 1 <=> calls[t].execute_scan = 0

-----------------------------------------------------------------------------
\* C3: testing the lock and taking it is one indivisible, non-blocking step:
\* a callback that has found the lock free is never left standing at the
\* lock while another callback holds it.
C3_NoThreadWaitsForTheLock ==
  \A t \in Threads :
    pc[t] = "acquire" => ~MUTEX /\ \A u \in Threads : ~InGuardedBlock(u)

-----------------------------------------------------------------------------
-----------------------------------------------------------------------------
\* C5: every callback that acquires the lock releases it exactly once when
\* its with block ends, whether the device command succeeded, exited
\* non-zero or raised: a thread takes the lock at most once, has it taken
\* and not released exactly while it is inside the block, has released as
\* often as it has acquired once it is finished, and the lock is free when
\* every thread is finished.
C5_ReleasedOnEveryExit ==
  /\ \A t \in Threads :
       /\ calls[t].acquire <= 1
       /\ calls[t].release <= calls[t].acquire
       /\ InGuardedBlock(t) <=> (calls[t].acquire = 1 /\ calls[t].release = 0)
       /\ pc[t] = "done" => calls[t].release = calls[t].acquire
  /\ (\A t \in Threads : pc[t] \in {"unborn", "done"}) => ~MUTEX

\* A callback whose device command raised has finished, having released the
\* lock it took.
C5_Witness ==
  \E t \in Threads :
    /\ pc[t] = "done"
    /\ result[t].raised
    /\ calls[t].acquire = 1
    /\ calls[t].release = 1
    /\ ~MUTEX

-----------------------------------------------------------------------------
\* C6: a /scan or /scan_and_print callback whose MUTEX.locked() check finds
\* the lock held (by a callback of either kind) is dropped, not queued: it
\* goes on to print its 'ignored' notice and finish, it never invokes
\* execute_scan or execute_print, and it neither takes nor releases the lock.
C6_HeldMeansDropped ==
  \A t \in Threads :
    observed[t].gate = "held" =>
      /\ pc[t] \in {"ignored", "done"}
      /\ pc[t] = "ignored" => calls[t].ignored = 0
      /\ pc[t] = "done" => calls[t].ignored = 1
      /\ calls[t].execute_scan = 0
      /\ calls[t].execute_print = 0
      /\ calls[t].acquire = 0
      /\ calls[t].release = 0

\* A trigger has been dropped with its notice while the callback that held
\* the lock at its check has since finished its device operation.
C6_Witness ==
  \E t, u \in Threads :
    /\ t # u
    /\ observed[t].gate = "held"
    /\ pc[t] = "done"
    /\ calls[t].ignored = 1
    /\ pc[u] = "done"
    /\ calls[u].release = 1
    /\ ~MUTEX

-----------------------------------------------------------------------------
\* C7: once a callback whose execute_scan succeeded has finished, the lock
\* is free again unless another callback is inside its block; and a /scan
\* callback that runs with no other trigger callback active finds the lock
\* free at its check and at its acquire, and a callback that found the lock
\* free ends having invoked execute_scan once and printed no notice.
C7_FreeAgainAfterScan ==
  /\ \A u \in Threads :
       ( /\ result[u].scan = "ok"
         /\ pc[u] = "done"
         /\ \A t \in Threads : ~InGuardedBlock(t) ) => ~MUTEX
  /\ \A t \in Threads :
       ( /\ request[t].address = "/scan"
         /\ pc[t] \in {"check", "acquire"}
         /\ \A u \in Threads \ {t} : ~InTriggerCallback(u) ) => ~MUTEX
  /\ \A t \in Threads :
       (request[t].address = "/scan" /\ observed[t].gate = "free" /\ pc[t] = "done")
         => calls[t].execute_scan = 1 /\ calls[t].ignored = 0

\* After a scan that succeeded and released the lock, a later /scan trigger
\* found the lock free and is scanning.
C7_Witness ==
  \E t, u \in Threads :
    /\ t # u
    /\ result[u].scan = "ok"
    /\ pc[u] = "done"
    /\ request[t].address = "/scan"
    /\ observed[t].gate = "free"
    /\ observed[t].releases >= 1
    /\ pc[t] = "scanning"

-----------------------------------------------------------------------------
\* Line l was printed to the console after line k.
PrintedAfter(k, l) ==
  \E i, j \in 1..Len(console) : i < j /\ console[i] = k /\ console[j] = l

\* C8: device commands never run on the listener's accept loop: every
\* request executes on a worker thread of its own, and while a callback is
\* in a device operation the accept loop is free and receives the next
\* datagram (as long as the run has datagrams left).
C8_DeviceCommandsOffAcceptLoop ==
  /\ \A t \in Threads : pc[t] # "unborn" => runner[t] = "worker"
  /\ \A t \in Threads :
       InDeviceOperation(t) =>
         /\ AcceptLoopFree
         /\ received < MaxDatagrams =>
              ENABLED (\E d \in Datagrams : serve_forever(d))

\* An /echo received after a scan trigger has been printed after the
\* "Scanning..." line while that scan is still running.
C8_Witness ==
  \E t, u \in Threads :
    /\ t < u
    /\ pc[t] = "scanning"
    /\ request[u].address = "/echo"
    /\ pc[u] = "done"
    /\ PrintedAfter(SCANNING, Line(request[u].msg))

-----------------------------------------------------------------------------
\* What echo_callback leaves alone: the lock, every other thread, and the
\* record of the lock checks and device commands.
EchoFrame(t) ==
  /\ MUTEX' = MUTEX
  /\ observed' = observed
  /\ result' = result
  /\ \A u \in Threads \ {t} : pc'[u] = pc[u] /\ calls'[u] = calls[u]

\* C9: echo_callback never reads, takes or releases the lock and always
\* completes: whatever the state of the lock, a thread at echo_callback can
\* take its step, and the step prints the message as one console line,
\* finishes the thread and leaves the lock and every other thread (so any
\* device operation in flight) unchanged.
C9_EchoIgnoresTheLock ==
  /\ [](\A t \in Threads : pc[t] = "echo" => ENABLED echo_callback(t))
  /\ [][\A t \in Threads :
          (pc[t] = "echo" /\ pc'[t] # "echo") =>
            /\ pc'[t] = "done"
            /\ console' = Append(console, Line(request[t].msg))
            /\ calls'[t] = [calls[t] EXCEPT !.echo = 1]
            /\ calls'[t].acquire = 0 /\ calls'[t].release = 0
            /\ observed[t].gate = "unchecked"
            /\ EchoFrame(t)]_vars

\* An /echo has just been printed while another callback holds the lock and
\* is printing.
C9_Witness ==
  \E t, u \in Threads :
    /\ MUTEX
    /\ pc[u] = "printing"
    /\ request[t].address = "/echo"
    /\ pc[t] = "done"
    /\ Len(console) > 0
    /\ console[Len(console)] = Line(request[t].msg)

-----------------------------------------------------------------------------
\* The addresses start_handler registers a route for.
Registered == {"/echo", "/scan", "/scan_and_print"}

\* C10: a message whose address has no route is a no-op: its thread goes
\* from the dispatcher straight to the end, no callback is invoked, nothing
\* is printed or raised, the lock is neither read nor touched, and the
\* dispatcher step changes nothing but that thread's position (so later
\* messages are still received and served).
C10_UnroutedIsNoOp ==
  /\ [](\A t \in Threads :
          (pc[t] # "unborn" /\ request[t].address \notin Registered) =>
            /\ pc[t] \in {"dispatch", "done"}
            /\ calls[t] = NoCalls
            /\ result[t] = NoResult
            /\ observed[t] = NoObservation
            /\ AcceptLoopFree)
  /\ [][\A t \in Threads :
          (request[t].address \notin Registered
             /\ pc[t] = "dispatch" /\ pc'[t] # "dispatch") =>
            /\ pc'[t] = "done"
            /\ UNCHANGED <<cliVars, MUTEX, console, calls, result, observed, received>>]_vars

\* After a message with an unrouted address was dropped, a later /scan was
\* received and is being served.
C10_Witness ==
  \E t, u \in Threads :
    /\ t < u
    /\ request[t].address = "/other"
    /\ pc[t] = "done"
    /\ request[u].address = "/scan"
    /\ pc[u] = "scanning"

-----------------------------------------------------------------------------
\* C11: the one-shot subcommands scan and scan_and_print run the executor
\* steps directly and bypass the lock: the command process never tests,
\* acquires or releases its MUTEX (which stays unlocked), its steps leave
\* the listener's MUTEX and the listener's record of lock operations alone,
\* and its executor steps can be taken whatever the state of the listener's
\* MUTEX.
C11_CliBypassesTheLock ==
  /\ [](/\ cli.MUTEX = FALSE
        /\ cli.calls.locked = 0
        /\ cli.calls.acquire = 0
        /\ cli.calls.release = 0)
  /\ [](cli.pc = "scan" => ENABLED handler_execute_scan_start)
  /\ [](cli.pc = "print" => ENABLED handler_execute_print_start)
  /\ [][(cli' # cli /\ cli.action \in {"scan", "scan_and_print"}) =>
          /\ MUTEX' = MUTEX
          /\ observed' = observed
          /\ calls' = calls
          /\ pc' = pc]_vars

\* The scan subcommand is scanning while a listener callback holds the
\* listener's lock and is scanning too.
C11_Witness ==
  /\ cli.action = "scan"
  /\ cli.pc = "scanning"
  /\ MUTEX
  /\ \E t \in Threads : pc[t] = "scanning"

-----------------------------------------------------------------------------
\* The text of a console line after its "> " prefix.
TextOf(line) == SubSeq(line, 3, Len(line))

\* C12: echo round trip.  Once the /echo message the client sent with
\* argument m has been received, the thread serving it carries address
\* /echo and argument m, the dispatcher invokes the callback for it once,
\* and the callback prints exactly one line, "> " followed by m unchanged;
\* the thread prints and does nothing else.
C12_EchoRoundTrip ==
  /\ [](cli.thread # 0 =>
          LET t == cli.thread IN
          /\ cli.action = "echo"
          /\ request[t] = [address |-> "/echo", msg |-> cli.msg]
          /\ pc[t] \in {"dispatch", "echo", "done"}
          /\ calls[t].handler = (IF pc[t] = "dispatch" THEN 0 ELSE 1)
          /\ calls[t].echo = (IF pc[t] = "done" THEN 1 ELSE 0)
          /\ [calls[t] EXCEPT !.handler = 0, !.echo = 0] = NoCalls
          /\ pc[t] = "done" =>
               \E i \in 1..Len(console) :
                 /\ console[i] = <<">", " ">> \o cli.msg
                 /\ TextOf(console[i]) = cli.msg)
  /\ [][(cli.thread # 0 /\ calls'[cli.thread].echo # calls[cli.thread].echo) =>
          /\ Len(console') = Len(console) + 1
          /\ TextOf(console'[Len(console')]) = cli.msg]_vars

\* The client sent "Hi", the listener received it and its console shows the
\* one line "> Hi".
C12_Witness ==
  /\ cli.msg = <<"H", "i">>
  /\ cli.thread # 0
  /\ pc[cli.thread] = "done"
  /\ console = << <<">", " ", "H", "i">> >>

-----------------------------------------------------------------------------
\* Thread t has started its scan and not yet left its with block.
BetweenScanAndRelease(t) == pc[t] \in {"scanning", "print", "printing", "exit"}

\* C13: in a /scan_and_print callback the scan step is over before the
\* print step starts, and both run inside one continuous hold of the lock:
\* from the start of the scan to the end of the print the lock is locked,
\* taken once and not released by the thread, and no other thread starts or
\* ends a scan or print step in between.
C13_ScanThenPrintInOneHold ==
  /\ [](\A t \in Threads :
          /\ pc[t] \in {"print", "printing"} =>
               /\ request[t].address = "/scan_and_print"
               /\ result[t].scan \in {"ok", "failed"}
               /\ calls[t].execute_scan = 1
          /\ pc[t] = "scanning" => calls[t].execute_print = 0
          /\ (IsTrigger(t) /\ BetweenScanAndRelease(t)) =>
               /\ MUTEX
               /\ calls[t].acquire = 1
               /\ calls[t].release = 0)
  /\ [][\A t \in Threads :
          (request[t].address = "/scan_and_print"
             /\ BetweenScanAndRelease(t) /\ pc[t] # "exit") =>
            \A u \in Threads \ {t} :
              /\ calls'[u].execute_scan = calls[u].execute_scan
              /\ calls'[u].execute_print = calls[u].execute_print
              /\ result'[u] = result[u]]_vars

\* A /scan_and_print callback is printing after its scan succeeded, while
\* another trigger callback that saw the lock free stands waiting at it.
C13_Witness ==
  \E t, u \in Threads :
    /\ t # u
    /\ request[t].address = "/scan_and_print"
    /\ pc[t] = "printing"
    /\ result[t].scan = "ok"
    /\ pc[u] = "acquire"

-----------------------------------------------------------------------------
\* C14: in every reachable state the lock is locked if and only if exactly
\* one thread is inside its with block (and never more than one is), and
\* every release is performed on a locked lock by the thread inside the
\* block, which leaves the lock free.
C14_HeldIffOneInBlock ==
  /\ [](/\ Cardinality({t \in Threads : InGuardedBlock(t)}) <= 1
        /\ MUTEX <=> (Cardinality({t \in Threads : InGuardedBlock(t)}) = 1))
  /\ [][\A t \in Threads :
          calls'[t].release # calls[t].release =>
            /\ MUTEX
            /\ InGuardedBlock(t)
            /\ calls'[t].release = calls[t].release + 1
            /\ ~MUTEX']_vars

\* One callback has released the lock and another has taken it since.
C14_Witness ==
  \E t, u \in Threads :
    /\ pc[t] = "done"
    /\ calls[t].release = 1
    /\ InGuardedBlock(u)
    /\ MUTEX

-----------------------------------------------------------------------------
\* The threads serving a /scan or /scan_and_print trigger.
TriggerThreads == {t \in Threads : pc[t] # "unborn" /\ IsTrigger(t)}

\* C15: each dispatched trigger has exactly one outcome, one execute_scan
\* invocation or one 'ignored' notice: never both, never more than one, and
\* one of them once its callback has finished; so when all threads have
\* finished, scans plus notices equal the triggers dispatched.  Threads of
\* other addresses scan and print nothing, and execute_print is invoked only
\* by /scan_and_print callbacks.
C15_OneOutcomePerTrigger ==
  /\ \A t \in Threads :
       /\ calls[t].execute_scan + calls[t].ignored <= 1
       /\ (pc[t] = "done" /\ IsTrigger(t)) =>
            calls[t].execute_scan + calls[t].ignored = 1
       /\ ~IsTrigger(t) => calls[t].execute_scan = 0 /\ calls[t].ignored = 0
       /\ calls[t].execute_print > 0 => request[t].address = "/scan_and_print"
       /\ calls[t].execute_print <= calls[t].execute_scan
  /\ (\A t \in Threads : pc[t] \in {"unborn", "done"}) =>
       Total("execute_scan", Threads) + Total("ignored", Threads)
         = Cardinality(TriggerThreads)

\* Two triggers have finished, one with a scan and a print, the other with
\* the notice.
C15_Witness ==
  \E t, u \in Threads :
    /\ pc[t] = "done" /\ pc[u] = "done"
    /\ calls[t].execute_scan = 1 /\ calls[t].execute_print = 1
    /\ calls[u].ignored = 1 /\ calls[u].execute_scan = 0

-----------------------------------------------------------------------------
\* A step of thread t, whichever it is.
ThreadStep(t) ==
  \/ dispatch(t)
  \/ echo_callback(t)
  \/ locked_check(t)
  \/ print_ignored(t)
  \/ mutex_enter(t)
  \/ execute_scan_start(t)
  \/ \E o \in Outcomes : execute_scan_end(t, o)
  \/ execute_print_start(t)
  \/ \E o \in Outcomes : execute_print_end(t, o)
  \/ mutex_exit(t)

\* The listener with every started thread scheduled fairly and every device
\* command terminating: a thread that can keep taking a step takes one.
FairSpec == Spec /\ \A t \in Threads : WF_vars(ThreadStep(t))

\* No thread is inside a request and the lock is free.
Quiescent == (\A t \in Threads : pc[t] \in {"unborn", "done"}) /\ ~MUTEX

\* C16: if every device command terminates and threads are scheduled
\* fairly, the listener always comes back to a state in which every started
\* thread (so every /scan and /scan_and_print callback, also one that had to
\* wait at the lock) has finished and the lock is free: no interleaving
\* deadlocks or leaves the lock held forever.
C16_EveryCallbackFinishes == []<>Quiescent

\* Two trigger callbacks that both saw the lock free have both taken it in
\* turn and finished, and the lock is free.
C16_Witness ==
  \E t, u \in Threads :
    /\ t # u
    /\ pc[t] = "done" /\ pc[u] = "done"
    /\ observed[t].gate = "free" /\ observed[u].gate = "free"
    /\ observed[t].releases = 0 /\ observed[u].releases = 0
    /\ calls[t].release = 1 /\ calls[u].release = 1
    /\ ~MUTEX

=============================================================================
